---- MODULE Spec2Model ----
(***************************************************************************)
(* Replicated in-memory cache: the LWW Store, the peer registry and the    *)
(* quorum replication engine of internal/cache.                            *)
(*                                                                         *)
(* Strings that the code compares (node ids used as Origin) are sequences  *)
(* of byte codes; values and keys, which the code only copies, are TLA+    *)
(* strings.  A time is a natural number of clock units, 0 being Go's zero  *)
(* time.Time (ExpiresAt unset).  A Go map is a function whose DOMAIN is    *)
(* the set of keys present.                                                *)
(***************************************************************************)
EXTENDS Integers, Sequences, FiniteSets, TLC

\* ------------------------------------------------------------------ bounds
\* Largest clock reading (and so the largest Version and ExpiresAt).
MaxTime == 3

\* Largest Version of an entry handed directly to a Store (SpecStore).
MaxVersion == 1

\* ------------------------------------------------------- program constants
\* time.Time{}: IsZero() holds of it and of no clock reading.
ZeroTime == 0

\* Node ids "A", "AB", "B" as byte strings: a proper prefix and a differing
\* first byte both occur.
Nodes == {<<1>>, <<1, 2>>, <<2>>}

Keys == {"k1", "k2"}

\* Request bodies; NoValue is the nil / empty []byte (omitted on the wire).
Values == {"a", "b"}
NoValue == ""

Times == 1..MaxTime
Versions == 0..MaxTime

\* ------------------------------------------------------------------- types
\* Item of types.go, as the handlers build it: a value with an optional
\* expiry, or a tombstone without either.
SetItems ==
    [value : Values, expiresAt : {ZeroTime} \cup Times, version : Versions,
     origin : Nodes, tombstone : {FALSE}]

DelItems ==
    [value : {NoValue}, expiresAt : {ZeroTime}, version : Versions,
     origin : Nodes, tombstone : {TRUE}]

Items == SetItems \cup DelItems

\* Item.expired
expired(it, now) == it.expiresAt # ZeroTime /\ now > it.expiresAt

\* Go's < on strings: bytewise lexicographic, a proper prefix is smaller.
RECURSIVE StrLess(_, _)
StrLess(a, b) ==
    IF b = <<>> THEN FALSE
    ELSE IF a = <<>> THEN TRUE
    ELSE IF Head(a) # Head(b) THEN Head(a) < Head(b)
    ELSE StrLess(Tail(a), Tail(b))

\* ptrTimeOrNil: a *time.Time is the empty sequence (nil) or <<t>>.
ptrTimeOrNil(t) == IF t = ZeroTime THEN <<>> ELSE <<t>>

\* The SyncMsg handlePut / handleDelete build for an item they stored.
SetMsg(key, it) ==
    [op |-> "set", key |-> key, value |-> it.value,
     expiresAt |-> ptrTimeOrNil(it.expiresAt),
     version |-> it.version, origin |-> it.origin]

DelMsg(key, it) ==
    [op |-> "del", key |-> key, value |-> NoValue, expiresAt |-> <<>>,
     version |-> it.version, origin |-> it.origin]

MsgOf(key, it) == IF it.tombstone THEN DelMsg(key, it) ELSE SetMsg(key, it)

\* The Item handleSync builds from a decoded SyncMsg.
ItemOfMsg(msg) ==
    IF msg.op = "set"
    THEN [value |-> msg.value,
          expiresAt |-> IF msg.expiresAt # <<>> THEN msg.expiresAt[1] ELSE ZeroTime,
          version |-> msg.version, origin |-> msg.origin, tombstone |-> FALSE]
    ELSE [value |-> NoValue, expiresAt |-> ZeroTime,
          version |-> msg.version, origin |-> msg.origin, tombstone |-> TRUE]

\* ------------------------------------------------------------------- Store
EmptyMap == [k \in {} |-> 0]

MapSet(d, key, it) == [k \in DOMAIN d \cup {key} |-> IF k = key THEN it ELSE d[k]]

MapDelete(d, ks) == [k \in DOMAIN d \ ks |-> d[k]]

\* The condition under which Put overwrites an existing entry, with >= in
\* place of > : a replayed entry would be applied again.
PutWinsNonStrict(incoming, cur) ==
    \/ incoming.version > cur.version
    \/ incoming.version = cur.version /\ ~StrLess(incoming.origin, cur.origin)

\* The condition with the origin tie-break dropped.
PutWinsNoTieBreak(incoming, cur) ==
    incoming.version > cur.version

\* Store.Put, line 89: the condition under which an existing entry is replaced.
PutWins(incoming, cur) ==
    \/ incoming.version > cur.version
    \/ incoming.version = cur.version /\ StrLess(cur.origin, incoming.origin)

\* A Put whose write to the map is lost.
PutDataLost(d, key, incoming) == d

\* Store.Put: the return value and the map afterwards.
PutApplied(d, key, incoming) ==
    IF key \notin DOMAIN d THEN TRUE ELSE PutWins(incoming, d[key])

PutData(d, key, incoming) ==
    IF PutApplied(d, key, incoming) THEN MapSet(d, key, incoming) ELSE d

\* Item{}: the zero Item.
ZeroItem ==
    [value |-> NoValue, expiresAt |-> ZeroTime, version |-> 0, origin |-> <<>>,
     tombstone |-> FALSE]

\* A Get that hides tombstones, as a reader of the cache is to see them.
GetVisible(d, key) ==
    IF key \in DOMAIN d /\ ~d[key].tombstone THEN [it |-> d[key], ok |-> TRUE]
    ELSE [it |-> ZeroItem, ok |-> FALSE]

\* Store.Get: the entry as stored and whether the key is present.
Get(d, key) ==
    IF key \in DOMAIN d THEN [it |-> d[key], ok |-> TRUE]
    ELSE [it |-> ZeroItem, ok |-> FALSE]

\* ------------------------------------------------------------------- state
VARIABLES
    data,        \* data[n]: node n's Store.data, a map from key to Item
    peers,       \* peers[n]: node n's active peer set (Node.peers)
    failCounts,  \* failCounts[n][p]: Node.failCounts
    clock,       \* clock[n]: the reading of node n's local clock
    class,       \* class[p]: how the network treats requests to p
    reqs,        \* the client requests of this run, in the order of their ids
    calls,       \* calls[i]: the handler (and Replicate call) serving reqs[i]
    hb,          \* hb[n]: the peers the running round of n's HeartbeatLoop has still to probe
    pool,        \* SpecStore: the two entries handed to the Stores
    seen,        \* SpecStore: seen[n], the pool entries applied at n, in the order of their first application
    ret          \* SpecStore: what the last Store operation returned

vars == <<data, peers, failCounts, clock, class, reqs, calls, hb, pool, seen, ret>>

clusterVars == <<peers, failCounts, clock, class, reqs, calls, hb>>

storeVars == <<pool, seen, ret>>

\* ------------------------------------------- SpecStore: the Store by itself
\* Entries a caller of Store.Put or a sender of POST /sync may hand in.
PoolItems ==
    [value : Values, expiresAt : {ZeroTime, 1}, version : 0..MaxVersion,
     origin : Nodes, tombstone : {FALSE}]
    \cup [value : {NoValue}, expiresAt : {ZeroTime}, version : 0..MaxVersion,
          origin : Nodes, tombstone : {TRUE}]

\* The two Stores SpecStore exercises.
StoreNodes == {<<1>>, <<2>>}

\* seen[n] after pool entry i was applied at n.
Record(h, i) == IF \E j \in 1..Len(h) : h[j] = i THEN h ELSE Append(h, i)

NoRet == [op |-> "none", node |-> <<>>, i |-> 0, applied |-> FALSE]

InitStore ==
    /\ data = [n \in Nodes |-> EmptyMap]
    /\ pool \in [{1, 2} -> [key : Keys, item : PoolItems]]
    /\ seen = [n \in Nodes |-> <<>>]
    /\ ret = NoRet
    /\ peers = [n \in Nodes |-> {}]
    /\ failCounts = [n \in Nodes |-> [p \in Nodes |-> 0]]
    /\ clock = [n \in Nodes |-> 1]
    /\ class = [n \in Nodes |-> "healthy"]
    /\ reqs = <<>>
    /\ calls = <<>>
    /\ hb = [n \in Nodes |-> {}]

\* s.Put(key, item) called on node n's Store with pool entry i.
StorePut(n, i) ==
    LET key == pool[i].key
        it == pool[i].item
    IN /\ data' = [data EXCEPT ![n] = PutData(data[n], key, it)]
       /\ ret' = [op |-> "put", node |-> n, i |-> i,
                  applied |-> PutApplied(data[n], key, it)]
       /\ seen' = [seen EXCEPT ![n] = Record(@, i)]
       /\ UNCHANGED <<pool, clusterVars>>

\* POST /sync on node n with the SyncMsg of pool entry i: handleSync.
StoreSync(n, i) ==
    LET msg == MsgOf(pool[i].key, pool[i].item)
        it == ItemOfMsg(msg)
    IN /\ data' = [data EXCEPT ![n] = PutData(data[n], msg.key, it)]
       /\ ret' = [op |-> "sync", node |-> n, i |-> i,
                  applied |-> PutApplied(data[n], msg.key, it)]
       /\ seen' = [seen EXCEPT ![n] = Record(@, i)]
       /\ UNCHANGED <<pool, clusterVars>>

NextStore ==
    \/ \E n \in StoreNodes, i \in {1, 2} : StorePut(n, i)
    \/ \E n \in StoreNodes, i \in {1, 2} : StoreSync(n, i)

SpecStore == InitStore /\ [][NextStore]_vars

\* ------------------------------------------ SpecSweep: a Store and its sweeps
\* HardDeleteExpired with every tombstone kept one clock unit less.
HardDeleteExpiredAtTTL(d, now, tombstoneTTL) ==
    [k \in {j \in DOMAIN d :
               ~(\/ d[j].tombstone /\ now - d[j].version >= tombstoneTTL
                 \/ ~d[j].tombstone /\ d[j].expiresAt # 0 /\ now > d[j].expiresAt)}
       |-> d[k]]

\* Store.HardDeleteExpired
HardDeleteExpired(d, now, tombstoneTTL) ==
    MapDelete(d, {k \in DOMAIN d :
                    \/ d[k].tombstone /\ now - d[k].version > tombstoneTTL
                    \/ ~d[k].tombstone /\ expired(d[k], now)})

\* The Store SpecSweep exercises.
SweepNodes == {<<1>>}

\* The tombstoneTTL arguments of a sweep: the node's, and twice as long.
TTLs == {1, 2}

\* s.HardDeleteExpired(now, ttl) called on node n's Store.  seen[n] keeps
\* the entries applied since their key was last absent.
StoreSweep(n, now, ttl) ==
    LET d2 == HardDeleteExpired(data[n], now, ttl)
    IN /\ data' = [data EXCEPT ![n] = d2]
       /\ ret' = [op |-> "sweep", node |-> n, i |-> 0, applied |-> FALSE,
                  now |-> now, ttl |-> ttl]
       /\ seen' = [seen EXCEPT ![n] =
                      SelectSeq(@, LAMBDA i : pool[i].key \in DOMAIN d2)]
       /\ UNCHANGED <<pool, clusterVars>>

\* s.Get(key) called on node n's Store.
StoreGet(n, key) ==
    LET g == Get(data[n], key)
    IN /\ ret' = [op |-> "Get", node |-> n, i |-> 0, applied |-> FALSE,
                  key |-> key, it |-> g.it, ok |-> g.ok]
       /\ UNCHANGED <<data, pool, seen, clusterVars>>

NextSweep ==
    \/ \E n \in SweepNodes, i \in {1, 2} : StorePut(n, i)
    \/ \E n \in SweepNodes, i \in {1, 2} : StoreSync(n, i)
    \/ \E n \in SweepNodes, now \in Times, ttl \in TTLs : StoreSweep(n, now, ttl)
    \/ \E n \in SweepNodes, key \in Keys : StoreGet(n, key)

SpecSweep == InitStore /\ [][NextSweep]_vars

\* ------------------------------------------------------ claims on the Store
\* The order of the specification's section 3 on (version, origin) pairs,
\* stated without reference to Put: a greater version, or the same version
\* and an origin that is greater at the first position where the two differ
\* (an origin is greater than each of its proper prefixes).
LexGreater(a, b) ==
    \E i \in 1..Len(a) :
        /\ \A j \in 1..(i - 1) : j <= Len(b) /\ a[j] = b[j]
        /\ i > Len(b) \/ (i <= Len(b) /\ a[i] > b[i])

PairGreater(x, y) ==
    \/ x.version > y.version
    \/ x.version = y.version /\ LexGreater(x.origin, y.origin)

SamePair(x, y) == x.version = y.version /\ x.origin = y.origin

\* d2 is d with key bound to it and every other key as it was.
Replaced(d, d2, key, it) ==
    /\ DOMAIN d2 = DOMAIN d \cup {key}
    /\ d2[key] = it
    /\ \A k \in DOMAIN d \ {key} : d2[k] = d[k]

\* C1: every step that is a Store.Put(key, incoming) on a node's Store
\* stores incoming and returns true when the key had no entry; when it had
\* one, incoming replaces it and true is returned if and only if incoming's
\* (version, origin) pair is strictly greater than the stored one's, and
\* otherwise the whole map is unchanged and false is returned.  No other
\* Store changes.
C1_PutLWW ==
    [][\A n \in StoreNodes, i \in {1, 2} :
         (ret'.op = "put" /\ ret'.node = n /\ ret'.i = i) =>
            LET key == pool[i].key
                incoming == pool[i].item
                d == data[n]
                d2 == data'[n]
            IN /\ key \notin DOMAIN d =>
                    ret'.applied /\ Replaced(d, d2, key, incoming)
               /\ key \in DOMAIN d =>
                    /\ ret'.applied <=> PairGreater(incoming, d[key])
                    /\ ret'.applied => Replaced(d, d2, key, incoming)
                    /\ ~ret'.applied => d2 = d
               /\ \A m \in Nodes \ {n} : data'[m] = data[m]]_vars

\* A Put has just replaced an entry of the same version by the tie-break on
\* the origin.
C1_Witness ==
    /\ ret.op = "put" /\ ret.applied
    /\ Len(seen[ret.node]) = 2 /\ seen[ret.node][2] = ret.i
    /\ pool[1].key = pool[2].key
    /\ pool[1].item.version = pool[2].item.version
    /\ pool[1].item.origin # pool[2].item.origin
    /\ data[ret.node][pool[1].key] = pool[ret.i].item

\* C2 as stated: whenever one Store was handed the two entries of a key in
\* one order and another Store in the other order, both hold the same entry.
C2_OrderIndependent ==
    \A n \in StoreNodes, m \in StoreNodes :
        (/\ pool[1].key = pool[2].key
         /\ seen[n] = <<1, 2>> /\ seen[m] = <<2, 1>>)
        => data[n][pool[1].key] = data[m][pool[1].key]

\* The entry of the pool with the greater pair (the pairs differ).
Greater(x, y) == IF PairGreater(x, y) THEN x ELSE y

\* C2, amended: two entries of one key whose (version, origin) pairs differ
\* leave, in either order of application to an empty Store, the entry with
\* the greater pair; two entries with the same pair leave the one applied
\* first.
C2_OrderIndependentDistinct ==
    \A n \in StoreNodes :
        (pool[1].key = pool[2].key /\ Len(seen[n]) = 2) =>
            LET x == pool[1].item
                y == pool[2].item
                got == data[n][pool[1].key]
            IN IF SamePair(x, y)
               THEN got = pool[seen[n][1]].item
               ELSE got = Greater(x, y)

\* Both orders have been applied to entries with different pairs and
\* different payloads, the greater one first at one Store and last at the
\* other.
C2_Witness ==
    /\ pool[1].key = pool[2].key
    /\ ~SamePair(pool[1].item, pool[2].item)
    /\ pool[1].item.version = pool[2].item.version
    /\ seen[<<1>>] = <<1, 2>> /\ seen[<<2>>] = <<2, 1>>
    /\ data[<<1>>] = data[<<2>>]

\* C3: a POST /sync of a SyncMsg to a node whose Store holds the entry that
\* message produces leaves every Store as it was, and the Put it makes
\* returns false; this holds of every such step, so of any number of
\* replays.
C3_ReplayNoOp ==
    [][\A n \in StoreNodes, i \in {1, 2} :
         LET msg == MsgOf(pool[i].key, pool[i].item)
         IN (/\ ret'.op = "sync" /\ ret'.node = n /\ ret'.i = i
             /\ msg.key \in DOMAIN data[n]
             /\ data[n][msg.key] = ItemOfMsg(msg))
            => (~ret'.applied /\ data' = data)]_vars

\* A message (set or del) was replayed at a node that had only ever been
\* handed that message's entry.
C3_Witness ==
    /\ ret.op = "sync" /\ ~ret.applied
    /\ seen[ret.node] = <<ret.i>>
    /\ pool[ret.i].item.tombstone
    /\ data[ret.node][pool[ret.i].key] =
          ItemOfMsg(MsgOf(pool[ret.i].key, pool[ret.i].item))

\* ------------------------------------------------------------ peer registry
\* NewNode: maxFailures.
maxFailures == 3

\* Node.bumpFail: the failure counts and the active peer set afterwards.
bumpFailCounts(fc, p, ok) ==
    IF ok THEN [fc EXCEPT ![p] = 0] ELSE [fc EXCEPT ![p] = @ + 1]

\* An eviction one failure late: the count must exceed the threshold.
bumpFailPeersLate(ps, fc, p, ok) ==
    IF ~ok /\ fc[p] + 1 > maxFailures THEN ps \ {p} ELSE ps

\* A registry in which a success brings the peer back.
bumpFailPeersRejoin(ps, fc, p, ok) ==
    IF ok THEN ps \cup {p}
    ELSE IF fc[p] + 1 >= maxFailures THEN ps \ {p} ELSE ps

bumpFailPeers(ps, fc, p, ok) ==
    IF ~ok /\ fc[p] + 1 >= maxFailures THEN ps \ {p} ELSE ps

\* ------------------------------------------------------------------ janitor
\* NewNode: TombstoneTTL (5 minutes), the unit of the model's clocks.
TombstoneTTL == 1

\* ----------------------------------------------------------- client writes
\* A request that has not been received yet.
IdleCall ==
    [pc |-> "idle", item |-> ZeroItem, applied |-> FALSE, snap |-> {},
     total |-> 0, target |-> 0, acked |-> 0, firstErr |-> "nil", ch |-> <<>>,
     ctx |-> "live", dl |-> EmptyMap, posted |-> [q \in Nodes |-> 0],
     got |-> {}, stored |-> {},
     bumps |-> [q \in Nodes |-> 0], sends |-> [q \in Nodes |-> 0],
     err |-> "nil", status |-> 0]

\* A result channel one slot short of the number of goroutines.
ChanCapShort(total) == IF total > 0 THEN total - 1 ELSE 0

\* Replicate, line 443: the capacity of the result channel ch.
ChanCap(total) == total

\* Target with the loop test off by one: one acknowledgement fewer than asked.
TargetOffByOne(min, full, total) ==
    LET t == IF full THEN total ELSE min - 1
        t0 == IF t < 0 THEN 0 ELSE t
    IN IF t0 > total THEN total ELSE t0

\* Target with full not read.
TargetIgnoresFull(min, full, total) ==
    LET t0 == IF min < 0 THEN 0 ELSE min
    IN IF t0 > total THEN total ELSE t0

\* Replicate, lines 427-436: the number of acknowledgements to wait for.
Target(min, full, total) ==
    LET t == IF full THEN total ELSE min
        t0 == IF t < 0 THEN 0 ELSE t
    IN IF t0 > total THEN total ELSE t0

\* The handler's response once Replicate has returned err.
StatusOf(op, err) == IF err # "nil" THEN 502 ELSE IF op = "set" THEN 201 ELSE 204

\* Replicate returns (c.acked, c.total, err): the deferred cancel() runs and
\* the handler answers.
Return(c, op, err) ==
    [c EXCEPT !.pc = "returned", !.err = err, !.status = StatusOf(op, err),
              !.ctx = IF @ = "live" THEN "canceled" ELSE @]

\* Replicate without the check of lines 420-425: with no peer it falls
\* through to the loop, which ends at once with a nil error.
ReplicateStartNoCheck(c, n, op, min, full) ==
    LET snap == peers[n]
        total == Cardinality(snap)
        started == [c EXCEPT !.snap = snap, !.total = total,
                             !.target = Target(min, full, total),
                             !.dl = [p \in snap |-> "flying"],
                             !.posted = [q \in Nodes |-> IF q \in snap THEN 1 ELSE 0],
                             !.pc = "collect"]
    IN IF started.target = 0 THEN Return(started, op, "nil") ELSE started

\* Replicate up to its first wait, lines 418-467, called by the handler of
\* a request whose call record is c: the snapshot of the active peers, the
\* early return without peers, one delivery goroutine per peer, and the
\* return without waiting when no acknowledgement is asked for.
ReplicateStart(c, n, op, min, full) ==
    LET snap == peers[n]
        total == Cardinality(snap)
        started == [c EXCEPT !.snap = snap, !.total = total,
                             !.target = Target(min, full, total),
                             !.dl = [p \in snap |-> "flying"],
                             !.posted = [q \in Nodes |-> IF q \in snap THEN 1 ELSE 0],
                             !.pc = "collect"]
    IN IF total = 0
       THEN [c EXCEPT !.pc = "returned",
                      !.err = IF min > 0 \/ full THEN "no peers available" ELSE "nil",
                      !.status = StatusOf(op, IF min > 0 \/ full
                                              THEN "no peers available" ELSE "nil")]
       ELSE IF started.target = 0 THEN Return(started, op, "nil") ELSE started

\* PUT /kv/{key}: handlePut up to the first wait of Replicate.
handlePut(i) ==
    LET r == reqs[i]
        n == r.node
        item == [value |-> r.value,
                 expiresAt |-> IF r.ttl > 0 THEN clock[n] + r.ttl ELSE ZeroTime,
                 version |-> clock[n], origin |-> n, tombstone |-> FALSE]
        applied == PutApplied(data[n], r.key, item)
        c == [calls[i] EXCEPT !.item = item, !.applied = applied,
                              !.stored = IF applied THEN {n} ELSE {}]
    IN /\ calls[i].pc = "idle"
       /\ r.op = "set"
       /\ data' = [data EXCEPT ![n] = PutData(data[n], r.key, item)]
       /\ calls' = [calls EXCEPT ![i] =
                      IF applied THEN ReplicateStart(c, n, r.op, r.min, r.full)
                      ELSE [c EXCEPT !.pc = "returned", !.status = 409]]
       /\ UNCHANGED <<peers, failCounts, clock, class, reqs, hb, storeVars>>

\* DELETE /kv/{key}: handleDelete up to the first wait of Replicate.  The
\* result of the local Put is not looked at.
handleDelete(i) ==
    LET r == reqs[i]
        n == r.node
        item == [value |-> NoValue, expiresAt |-> ZeroTime,
                 version |-> clock[n], origin |-> n, tombstone |-> TRUE]
        applied == PutApplied(data[n], r.key, item)
        c == [calls[i] EXCEPT !.item = item, !.applied = applied,
                              !.stored = IF applied THEN {n} ELSE {}]
    IN /\ calls[i].pc = "idle"
       /\ r.op = "del"
       /\ data' = [data EXCEPT ![n] = PutData(data[n], r.key, item)]
       /\ calls' = [calls EXCEPT ![i] = ReplicateStart(c, n, r.op, r.min, r.full)]
       /\ UNCHANGED <<peers, failCounts, clock, class, reqs, hb, storeVars>>

\* ------------------------------------------------------- delivery goroutines
\* handleSync: the Store of the receiving node afterwards.
handleSyncData(d, msg) ==
    IF msg.op \in {"set", "del"} THEN PutData(d, msg.key, ItemOfMsg(msg)) ELSE d

\* A handleSync that replicated what it applied would post the message once
\* more to each of the receiver's peers.
handleSyncPostsRelay(po, p) ==
    [q \in Nodes |-> po[q] + IF q \in peers[p] THEN 1 ELSE 0]

\* handleSync: the POST /sync requests made for the write so far, po, after
\* node p has handled the message.  handleSync makes no request.
handleSyncPosts(po, p) == po

\* The request of call i's delivery to p reaches p, which runs handleSync
\* and answers 204.  The sender may have given up on it already.
SyncArrive(i, p) ==
    LET c == calls[i]
        msg == MsgOf(reqs[i].key, c.item)
    IN /\ c.pc \in {"collect", "returned"}
       /\ p \in c.snap
       /\ c.dl[p] \in {"flying", "lostfly"}
       /\ class[p] # "down"
       /\ data' = [data EXCEPT ![p] = handleSyncData(data[p], msg)]
       /\ calls' = [calls EXCEPT ![i].dl[p] = IF @ = "flying" THEN "served" ELSE "done",
                                 ![i].posted = handleSyncPosts(@, p),
                                 ![i].got = @ \cup {p},
                                 ![i].stored =
                                    IF PutApplied(data[p], msg.key, ItemOfMsg(msg))
                                    THEN @ \cup {p} ELSE @]
       /\ UNCHANGED <<peers, failCounts, clock, class, reqs, hb, storeVars>>

\* A peer that would answer 2xx on receipt, before handling the message.
DeliverOkEarly(i, p) ==
    LET c == calls[i]
        n == reqs[i].node
    IN /\ c.pc \in {"collect", "returned"}
       /\ p \in c.snap
       /\ c.dl[p] \in {"flying", "served"}
       /\ class[p] # "down"
       /\ c.ctx = "live"
       /\ failCounts' = [failCounts EXCEPT ![n] = bumpFailCounts(@, p, TRUE)]
       /\ peers' = [peers EXCEPT ![n] = bumpFailPeers(@, failCounts[n], p, TRUE)]
       /\ calls' = [calls EXCEPT ![i].dl[p] = IF @ = "flying" THEN "lostfly" ELSE "done",
                                 ![i].bumps[p] = @ + 1, ![i].sends[p] = @ + 1,
                                 ![i].ch = Append(@, [peer |-> p, res |-> "ok"])]
       /\ UNCHANGED <<data, clock, class, reqs, hb, storeVars>>

\* The goroutine of call i for peer p gets the 2xx response: bumpFail(p,
\* true) and the send of res{true, nil}, which the channel's capacity
\* (total) lets through without blocking.
DeliverOk(i, p) ==
    LET c == calls[i]
        n == reqs[i].node
    IN /\ c.pc \in {"collect", "returned"}
       /\ p \in c.snap
       /\ c.dl[p] = "served"
       /\ c.ctx = "live"
       /\ Len(c.ch) < ChanCap(c.total)
       /\ failCounts' = [failCounts EXCEPT ![n] = bumpFailCounts(@, p, TRUE)]
       /\ peers' = [peers EXCEPT ![n] = bumpFailPeers(@, failCounts[n], p, TRUE)]
       /\ calls' = [calls EXCEPT ![i].dl[p] = "done",
                                 ![i].bumps[p] = @ + 1, ![i].sends[p] = @ + 1,
                                 ![i].ch = Append(@, [peer |-> p, res |-> "ok"])]
       /\ UNCHANGED <<data, clock, class, reqs, hb, storeVars>>

\* The error client.Do returns to a delivery of a call whose context is ctx.
DoError(ctx) ==
    CASE ctx = "live" -> "connection error"
      [] ctx = "expired" -> "context deadline exceeded"
      [] OTHER -> "context canceled"

\* client.Do of call i's goroutine for peer p returns an error: the call's
\* context is done, or the network fails a peer that is not healthy.  The
\* request may still be on its way to a peer that is up.
DeliverFail(i, p) ==
    LET c == calls[i]
        n == reqs[i].node
    IN /\ c.pc \in {"collect", "returned"}
       /\ p \in c.snap
       /\ c.dl[p] \in {"flying", "served"}
       /\ c.ctx # "live" \/ class[p] # "healthy"
       /\ Len(c.ch) < ChanCap(c.total)
       /\ failCounts' = [failCounts EXCEPT ![n] = bumpFailCounts(@, p, FALSE)]
       /\ peers' = [peers EXCEPT ![n] = bumpFailPeers(@, failCounts[n], p, FALSE)]
       /\ calls' = [calls EXCEPT
                      ![i].dl[p] = IF @ = "flying" /\ class[p] # "down"
                                   THEN "lostfly" ELSE "done",
                      ![i].bumps[p] = @ + 1, ![i].sends[p] = @ + 1,
                      ![i].ch = Append(@, [peer |-> p, res |-> DoError(c.ctx)])]
       /\ UNCHANGED <<data, clock, class, reqs, hb, storeVars>>

\* ------------------------------------------------- Replicate's collect loop
\* The case r := <-ch of the select, lines 475-480, and the loop test after
\* it: Replicate returns firstErr once acked has reached the target.
ReplicateRecv(i) ==
    LET c == calls[i]
        r == Head(c.ch).res
        acked == IF r = "ok" THEN c.acked + 1 ELSE c.acked
        firstErr == IF r # "ok" /\ c.firstErr = "nil" THEN r ELSE c.firstErr
        c2 == [c EXCEPT !.ch = Tail(@), !.acked = acked, !.firstErr = firstErr]
    IN /\ c.pc = "collect"
       /\ c.ch # <<>>
       /\ calls' = [calls EXCEPT ![i] =
                      IF acked < c.target THEN c2
                      ELSE Return(c2, reqs[i].op, firstErr)]
       /\ UNCHANGED <<data, peers, failCounts, clock, class, reqs, hb, storeVars>>

\* The peers whose result is in the channel, not yet received.
Buffered(c) == {c.ch[j].peer : j \in 1..Len(c.ch)}

\* The deadline of call i's context (ReqTimeout after the call) passes while
\* Replicate waits.  A healthy peer answers before the deadline: by then
\* its goroutine has its response and the loop, had it not returned, has
\* received the result.
Deadline(i) ==
    LET c == calls[i]
    IN /\ c.pc = "collect"
       /\ c.ctx = "live"
       /\ \A p \in c.snap :
            class[p] = "healthy" => c.dl[p] = "done" /\ p \notin Buffered(c)
       /\ calls' = [calls EXCEPT ![i].ctx = "expired"]
       /\ UNCHANGED <<data, peers, failCounts, clock, class, reqs, hb, storeVars>>

\* A loop that leaves on ctx.Done() only once every goroutine has reported:
\* the deadline would bound each delivery, not the call.
ReplicateTimeoutAfterAll(i) ==
    LET c == calls[i]
        err == IF c.firstErr = "nil" THEN "timeout waiting for acks" ELSE c.firstErr
    IN /\ c.pc = "collect"
       /\ c.ctx = "expired"
       /\ \A p \in c.snap : c.dl[p] \in {"lostfly", "done"}
       /\ calls' = [calls EXCEPT ![i] =
                      Return([c EXCEPT !.firstErr = err], reqs[i].op, err)]
       /\ UNCHANGED <<data, peers, failCounts, clock, class, reqs, hb, storeVars>>

\* The case <-ctx.Done() of the select, lines 470-474.
ReplicateTimeout(i) ==
    LET c == calls[i]
        err == IF c.firstErr = "nil" THEN "timeout waiting for acks" ELSE c.firstErr
    IN /\ c.pc = "collect"
       /\ c.ctx = "expired"
       /\ calls' = [calls EXCEPT ![i] =
                      Return([c EXCEPT !.firstErr = err], reqs[i].op, err)]
       /\ UNCHANGED <<data, peers, failCounts, clock, class, reqs, hb, storeVars>>

\* ------------------------------------------------------- clocks and janitor
\* Time passes on clocks that agree.
TickAll ==
    /\ \A n \in Nodes : clock[n] < MaxTime
    /\ clock' = [n \in Nodes |-> clock[n] + 1]
    /\ UNCHANGED <<data, peers, failCounts, class, reqs, calls, hb, storeVars>>

\* One round of JanitorLoop on node n.
Janitor(n) ==
    /\ data' = [data EXCEPT ![n] = HardDeleteExpired(@, clock[n], TombstoneTTL)]
    /\ UNCHANGED <<peers, failCounts, clock, class, reqs, calls, hb, storeVars>>

\* ------------------------------------------------------------ client reads
NotFound == [status |-> 404, body |-> "404 page not found"]

\* A handleGet that does not look at the expiry.
handleGetRespNoExpiry(d, key, now) ==
    LET g == Get(d, key)
    IN IF ~g.ok \/ g.it.tombstone THEN NotFound
       ELSE [status |-> 200, body |-> g.it.value]

\* handleGet: the response to GET /kv/{key} of a node whose Store holds d and
\* whose clock reads now.
handleGetResp(d, key, now) ==
    LET g == Get(d, key)
    IN IF ~g.ok \/ g.it.tombstone \/ expired(g.it, now) THEN NotFound
       ELSE [status |-> 200, body |-> g.it.value]

\* GET /kv/{key} on node n.
handleGet(n, key) ==
    LET r == handleGetResp(data[n], key, clock[n])
    IN /\ ret' = [op |-> "get", node |-> n, i |-> 0, applied |-> FALSE,
                  key |-> key, status |-> r.status, body |-> r.body]
       /\ UNCHANGED <<data, pool, seen, clusterVars>>

\* ------------------------------------------- SpecRepl: one node replicating
\* Largest min a client asks for.
MaxMin == 3

\* SpecRepl follows one client request through Replicate.
OneRequest == {1}

\* NewNode with the other nodes as initial peers.
InitialPeers == [n \in Nodes |-> Nodes \ {n}]

NoPool == [i \in {1, 2} |-> [key |-> "k1", item |-> ZeroItem]]

Classes == {"healthy", "flaky", "down"}

\* The query parameters min and full of a request; Replicate does not read
\* min when full is set.
Quorums == [min : 0..MaxMin, full : {FALSE}] \cup [min : {0}, full : {TRUE}]

\* Requests to node "A": writes and deletes of one key with every min and
\* full.
ReplReqs ==
    {[node |-> <<1>>, op |-> o, key |-> "k1",
      value |-> IF o = "set" THEN "a" ELSE NoValue, ttl |-> 0,
      min |-> q.min, full |-> q.full] : o \in {"set", "del"}, q \in Quorums}

\* Node "A" serves the request; its active peer set is any part of its
\* initial peers (the others having been evicted or never configured).
InitRepl ==
    /\ data = [n \in Nodes |-> EmptyMap]
    /\ peers \in {[InitialPeers EXCEPT ![<<1>>] = ps] : ps \in SUBSET (Nodes \ {<<1>>})}
    /\ failCounts = [n \in Nodes |-> [p \in Nodes |-> 0]]
    /\ clock = [n \in Nodes |-> 1]
    /\ class \in {cl \in [Nodes -> Classes] : cl[<<1>>] = "healthy"}
    /\ reqs \in [OneRequest -> ReplReqs]
    /\ calls = [i \in OneRequest |-> IdleCall]
    /\ hb = [n \in Nodes |-> {}]
    /\ pool = NoPool
    /\ seen = [n \in Nodes |-> <<>>]
    /\ ret = NoRet

NextRepl ==
    \/ \E i \in DOMAIN reqs : handlePut(i)
    \/ \E i \in DOMAIN reqs : handleDelete(i)
    \/ \E i \in DOMAIN reqs, p \in Nodes : SyncArrive(i, p)
    \/ \E i \in DOMAIN reqs, p \in Nodes : DeliverOk(i, p)
    \/ \E i \in DOMAIN reqs, p \in Nodes : DeliverFail(i, p)
    \/ \E i \in DOMAIN reqs : ReplicateRecv(i)
    \/ \E i \in DOMAIN reqs : Deadline(i)
    \/ \E i \in DOMAIN reqs : ReplicateTimeout(i)

SpecRepl == InitRepl /\ [][NextRepl]_vars

\* ------------------------------------- SpecCluster: writes meeting in Stores
\* SpecCluster follows two client requests for one key.
TwoRequests == {1, 2}

\* Writes (with and without a TTL of one clock unit) and deletes of key
\* "k1" at any node, none waiting for an acknowledgement: Replicate returns
\* at once and its deliveries go on by themselves.
ClusterReqs ==
    {[node |-> n, op |-> "set", key |-> "k1", value |-> "a", ttl |-> t,
      min |-> 0, full |-> FALSE] : n \in Nodes, t \in {0, 1}}
    \cup {[node |-> n, op |-> "del", key |-> "k1", value |-> NoValue, ttl |-> 0,
           min |-> 0, full |-> FALSE] : n \in Nodes}

\* A full mesh of nodes that are up, on a network that may fail or delay
\* any request.
InitMesh ==
    /\ data = [n \in Nodes |-> EmptyMap]
    /\ peers = InitialPeers
    /\ failCounts = [n \in Nodes |-> [p \in Nodes |-> 0]]
    /\ clock = [n \in Nodes |-> 1]
    /\ class = [n \in Nodes |-> "flaky"]
    /\ reqs \in [TwoRequests -> ClusterReqs]
    /\ calls = [i \in TwoRequests |-> IdleCall]
    /\ hb = [n \in Nodes |-> {}]
    /\ pool = NoPool
    /\ seen = [n \in Nodes |-> <<>>]
    /\ ret = NoRet

\* The context of a call with min = 0 and full = false is canceled when
\* Replicate returns, before any response: no delivery of SpecCluster gets
\* a response, and no collect loop runs.  What a delivery goroutine does
\* once client.Do has failed (bumpFail, the send on ch) reads and writes no
\* Store and does not stop its request from arriving, so SpecCluster leaves
\* it out; its clocks agree.
NextCluster ==
    \/ \E i \in DOMAIN reqs : handlePut(i)
    \/ \E i \in DOMAIN reqs : handleDelete(i)
    \/ \E i \in DOMAIN reqs, p \in Nodes : SyncArrive(i, p)
    \/ TickAll
    \/ \E n \in Nodes : Janitor(n)

SpecCluster == InitMesh /\ [][NextCluster]_vars

\* ---------------------------------------- SpecRead: the cluster with readers
\* Clients read the written key at any node at any moment.
NextRead ==
    \/ NextCluster
    \/ \E n \in Nodes : handleGet(n, "k1")

SpecRead == InitMesh /\ [][NextRead]_vars

\* ------------------------------------- SpecPeers: the registry of one node
\* What a health probe of a peer of class cl can find: TRUE is a 200 in time.
ProbeOutcomes(cl) ==
    IF cl = "healthy" THEN {TRUE} ELSE IF cl = "down" THEN {FALSE} ELSE {TRUE, FALSE}

\* HeartbeatLoop, case <-t.C: a round begins with the active peers of the
\* moment, n.activePeers().
HeartbeatTick(n) ==
    /\ hb[n] = {}
    /\ peers[n] # {}
    /\ hb' = [hb EXCEPT ![n] = peers[n]]
    /\ UNCHANGED <<data, peers, failCounts, clock, class, reqs, calls, storeVars>>

\* The body of the round's loop for peer p: GET p/health and bumpFail with
\* what came of it.  p may have been evicted since the round began.
HeartbeatProbe(n, p) ==
    /\ p \in hb[n]
    /\ \E ok \in ProbeOutcomes(class[p]) :
         /\ failCounts' = [failCounts EXCEPT ![n] = bumpFailCounts(@, p, ok)]
         /\ peers' = [peers EXCEPT ![n] = bumpFailPeers(@, failCounts[n], p, ok)]
    /\ hb' = [hb EXCEPT ![n] = @ \ {p}]
    /\ UNCHANGED <<data, clock, class, reqs, calls, storeVars>>

\* The node whose HeartbeatLoop SpecPeers runs.
HBNodes == {<<1>>}

\* Writes and deletes at node "A", waiting for none, one or two
\* acknowledgements.
PeerReqs ==
    {[node |-> <<1>>, op |-> o, key |-> "k1",
      value |-> IF o = "set" THEN "a" ELSE NoValue, ttl |-> 0,
      min |-> m, full |-> FALSE] : o \in {"set", "del"}, m \in {0, 1, 2}}

\* NewNode: every other node is an active peer and no failure is counted.
InitPeers ==
    /\ data = [n \in Nodes |-> EmptyMap]
    /\ peers = InitialPeers
    /\ failCounts = [n \in Nodes |-> [p \in Nodes |-> 0]]
    /\ clock = [n \in Nodes |-> 1]
    /\ class \in {cl \in [Nodes -> Classes] : cl[<<1>>] = "healthy"}
    /\ reqs \in [OneRequest -> PeerReqs]
    /\ calls = [i \in OneRequest |-> IdleCall]
    /\ hb = [n \in Nodes |-> {}]
    /\ pool = NoPool
    /\ seen = [n \in Nodes |-> <<>>]
    /\ ret = NoRet

\* The HeartbeatLoop of a node beside the client writes it replicates.
NextPeers ==
    \/ \E n \in HBNodes : HeartbeatTick(n)
    \/ \E n \in HBNodes, p \in Nodes : HeartbeatProbe(n, p)
    \/ \E i \in DOMAIN reqs : handlePut(i)
    \/ \E i \in DOMAIN reqs : handleDelete(i)
    \/ \E i \in DOMAIN reqs, p \in Nodes : SyncArrive(i, p)
    \/ \E i \in DOMAIN reqs, p \in Nodes : DeliverOk(i, p)
    \/ \E i \in DOMAIN reqs, p \in Nodes : DeliverFail(i, p)
    \/ \E i \in DOMAIN reqs : ReplicateRecv(i)
    \/ \E i \in DOMAIN reqs : Deadline(i)
    \/ \E i \in DOMAIN reqs : ReplicateTimeout(i)

SpecPeers == InitPeers /\ [][NextPeers]_vars

\* ------------------------------- SpecEvict: writes in a row to healthy peers
\* SpecEvict follows three client requests.
ThreeRequests == {1, 2, 3}

\* Writes and deletes at node "A" that wait for one acknowledgement.
EvictReqs ==
    {[node |-> <<1>>, op |-> o, key |-> "k1",
      value |-> IF o = "set" THEN "a" ELSE NoValue, ttl |-> 0,
      min |-> 1, full |-> FALSE] : o \in {"set", "del"}}

\* NewNode on a network where every node answers every request in time.
InitEvict ==
    /\ data = [n \in Nodes |-> EmptyMap]
    /\ peers = InitialPeers
    /\ failCounts = [n \in Nodes |-> [p \in Nodes |-> 0]]
    /\ clock = [n \in Nodes |-> 1]
    /\ class = [n \in Nodes |-> "healthy"]
    /\ reqs \in [ThreeRequests -> EvictReqs]
    /\ calls = [i \in ThreeRequests |-> IdleCall]
    /\ hb = [n \in Nodes |-> {}]
    /\ pool = NoPool
    /\ seen = [n \in Nodes |-> <<>>]
    /\ ret = NoRet

\* With every peer healthy and one acknowledgement awaited, a
\* Replicate call returns before its deadline: Deadline and
\* ReplicateTimeout have no part.
NextEvict ==
    \/ \E i \in DOMAIN reqs : handlePut(i)
    \/ \E i \in DOMAIN reqs : handleDelete(i)
    \/ \E i \in DOMAIN reqs, p \in Nodes : SyncArrive(i, p)
    \/ \E i \in DOMAIN reqs, p \in Nodes : DeliverOk(i, p)
    \/ \E i \in DOMAIN reqs, p \in Nodes : DeliverFail(i, p)
    \/ \E i \in DOMAIN reqs : ReplicateRecv(i)

SpecEvict == InitEvict /\ [][NextEvict]_vars

\* ---------------------------------------------------- claims on the cluster
\* The handler of request i has built its entry and Put it into the Store
\* of its node.
Written(i) == calls[i].pc # "idle"

\* The write of request i has reached every node: its own by the handler's
\* Put, every other one by a handleSync of its message.
ReachedAll(i) ==
    Written(i) /\ \A n \in Nodes \ {reqs[i].node} : n \in calls[i].got

\* The write of request i has the greatest (version, origin) pair of the
\* writes made to its key.
Maximal(i) ==
    \A j \in DOMAIN reqs \ {i} :
        (Written(j) /\ reqs[j].key = reqs[i].key)
        => PairGreater(calls[i].item, calls[j].item)

\* C4 as stated, in its weakest reading: once the write with the greatest
\* (version, origin) pair has reached every node, no node holds another
\* entry for the key, whatever syncs of older writes arrive afterwards and
\* whenever the janitors sweep (a node whose janitor has removed the entry
\* holds none).
C4_AgreeOnMaximal ==
    \A i \in DOMAIN reqs :
        (ReachedAll(i) /\ Maximal(i)) =>
            \A n \in Nodes :
                reqs[i].key \in DOMAIN data[n] => data[n][reqs[i].key] = calls[i].item

\* The scheduler runs the collect loop, the timer of the call's context
\* fires, and a healthy peer handles and answers what is sent to it.
FairRepl ==
    /\ \A i \in OneRequest : WF_vars(ReplicateRecv(i))
    /\ \A i \in OneRequest : WF_vars(Deadline(i))
    /\ \A i \in OneRequest : WF_vars(ReplicateTimeout(i))
    /\ \A i \in OneRequest, p \in Nodes :
         WF_vars(class[p] = "healthy" /\ SyncArrive(i, p))
    /\ \A i \in OneRequest, p \in Nodes :
         WF_vars(class[p] = "healthy" /\ DeliverOk(i, p))

SpecReplLive == InitRepl /\ [][NextRepl]_vars /\ FairRepl

\* client.Do returns to its goroutine once the call's context is done.
FairDeliver ==
    \A i \in OneRequest, p \in Nodes :
        WF_vars(calls[i].ctx # "live" /\ DeliverFail(i, p))

SpecReplDone == InitRepl /\ [][NextRepl]_vars /\ FairRepl /\ FairDeliver

\* ------------------------------------------------------ claims on Replicate
\* Replicate has been called for request i (the handler did not answer 409
\* before it).
Ran(i) == calls[i].pc # "idle" /\ calls[i].status # 409

\* C5: the POST /sync requests made for a client write are, at every moment
\* and whatever has been delivered and handled, exactly one to each peer of
\* the snapshot Replicate took at the originating node: a node that handles
\* a SyncMsg posts nothing.
C5_NoRebroadcast ==
    \A i \in DOMAIN calls : \A q \in Nodes :
        calls[i].posted[q] = IF q \in calls[i].snap THEN 1 ELSE 0

\* A peer that has peers of its own has handled the message of a write.
C5_Witness ==
    \E i \in DOMAIN calls : \E p \in calls[i].snap :
        /\ calls[i].dl[p] \in {"served", "done"}
        /\ reqs[i].key \in DOMAIN data[p]
        /\ data[p][reqs[i].key] = calls[i].item
        /\ peers[p] # {}
        /\ calls[i].total = 2

\* C6: a Replicate call with full = false and min = k that found p >= k
\* active peers, all of them healthy, has returned, when it has returned,
\* acked >= k and a nil error, and its deadline had not passed.
C6_HealthyQuorum ==
    \A i \in DOMAIN calls :
        (/\ Ran(i) /\ calls[i].pc = "returned"
         /\ ~reqs[i].full
         /\ calls[i].total >= reqs[i].min
         /\ \A p \in calls[i].snap : class[p] = "healthy")
        => (/\ calls[i].acked >= reqs[i].min
            /\ calls[i].err = "nil"
            /\ calls[i].ctx # "expired")

\* Replicate returned after two healthy peers acknowledged a write with
\* min = 2.
C6_Witness ==
    \E i \in DOMAIN calls :
        /\ Ran(i) /\ calls[i].pc = "returned"
        /\ ~reqs[i].full /\ reqs[i].min = 2 /\ calls[i].total = 2
        /\ \A p \in calls[i].snap : class[p] = "healthy"
        /\ calls[i].acked = 2

\* C7 as stated: a Replicate call that returned with the acknowledgement
\* count at the target returned a nil error.
C7_NilOnTarget ==
    \A i \in DOMAIN calls :
        (/\ Ran(i) /\ calls[i].pc = "returned"
         /\ calls[i].total > 0
         /\ calls[i].acked = calls[i].target)
        => calls[i].err = "nil"

\* C8: a Replicate call with full = true whose snapshot holds a peer that
\* is down has returned, when it has returned, a non-nil error and
\* acked < total, and the handler answered 502.
C8_FullWithDownPeer ==
    \A i \in DOMAIN calls :
        (/\ Ran(i) /\ calls[i].pc = "returned"
         /\ reqs[i].full
         /\ \E p \in calls[i].snap : class[p] = "down")
        => (/\ calls[i].err # "nil"
            /\ calls[i].acked < calls[i].total
            /\ calls[i].status = 502)

\* A DELETE with full = true returned 502 with one of two peers down and
\* the other's acknowledgement counted.
C8_Witness ==
    \E i \in DOMAIN calls :
        /\ Ran(i) /\ calls[i].pc = "returned"
        /\ reqs[i].full /\ reqs[i].op = "del"
        /\ \E p \in calls[i].snap : class[p] = "down"
        /\ calls[i].acked = 1 /\ calls[i].total = 2
        /\ calls[i].status = 502

\* C9: every step in which a handler calls Replicate on a node whose active
\* peer set is empty ends with Replicate returned, acked = 0, total = 0, no
\* POST /sync made, and the error "no peers available" if min > 0 or full
\* is asked for and nil otherwise.
C9_NoPeers ==
    [][\A i \in DOMAIN calls :
         (/\ calls[i].pc = "idle" /\ calls'[i].pc # "idle"
          /\ calls'[i].status # 409
          /\ peers[reqs[i].node] = {})
         => (/\ calls'[i].pc = "returned"
             /\ calls'[i].acked = 0 /\ calls'[i].total = 0
             /\ \A q \in Nodes : calls'[i].posted[q] = 0
             /\ calls'[i].err = IF reqs[i].min > 0 \/ reqs[i].full
                                THEN "no peers available" ELSE "nil")]_vars

\* A write with min > 0 was answered 502 by a node without peers.
C9_Witness ==
    \E i \in DOMAIN calls :
        /\ calls[i].pc = "returned" /\ calls[i].total = 0
        /\ reqs[i].min > 0 /\ ~reqs[i].full
        /\ calls[i].err = "no peers available" /\ calls[i].status = 502

\* C10: a Replicate call that waits returns: at the latest when its deadline
\* has passed, whatever the peers that have not answered do.
C10_ReplicateReturns ==
    \A i \in OneRequest : (calls[i].pc = "collect") ~> (calls[i].pc = "returned")

\* Replicate has returned on its deadline while the delivery to a peer that
\* is down is still waiting for an answer.
C10_Witness ==
    \E i \in DOMAIN calls : \E p \in calls[i].snap :
        /\ calls[i].pc = "returned" /\ calls[i].ctx = "expired"
        /\ class[p] = "down" /\ calls[i].dl[p] = "flying"
        /\ calls[i].acked < calls[i].target

\* C11 as stated: a Replicate call that returned on its deadline, with fewer
\* acknowledgements than its target, returned a timeout error.
C11_DeadlineTimeoutError ==
    \A i \in DOMAIN calls :
        (/\ Ran(i) /\ calls[i].pc = "returned"
         /\ calls[i].ctx = "expired"
         /\ calls[i].acked < calls[i].target)
        => (/\ calls[i].acked <= calls[i].total
            /\ calls[i].err = "timeout waiting for acks")

\* ------------------------------------------------- claims on the registry
\* C12: every change of a node's registry is the recording of one outcome
\* for one peer: either that peer's failure count becomes 0 and the active
\* set stays as it is, or the count grows by one and the peer leaves the
\* active set exactly when the count has become 3; and in every state each
\* peer of an active set has a failure count below 3.
C12_BumpFail ==
    /\ [](\A n \in Nodes : \A p \in peers[n] : failCounts[n][p] < 3)
    /\ [][\A n \in Nodes :
            (failCounts'[n] # failCounts[n] \/ peers'[n] # peers[n]) =>
               \E p \in Nodes :
                  /\ \A q \in Nodes \ {p} : failCounts'[n][q] = failCounts[n][q]
                  /\ \/ failCounts'[n][p] = 0 /\ peers'[n] = peers[n]
                     \/ /\ failCounts'[n][p] = failCounts[n][p] + 1
                        /\ peers'[n] = IF failCounts'[n][p] = 3
                                       THEN peers[n] \ {p} ELSE peers[n]]_vars

\* A peer has been evicted on its third failure in a row, one of them a
\* replication delivery, while the other peer, with two failures, stays.
C12_Witness ==
    \E p \in Nodes, q \in Nodes :
        /\ p # q
        /\ p \notin peers[<<1>>] /\ failCounts[<<1>>][p] = 3
        /\ calls[1].sends[p] = 1 /\ calls[1].dl[p] \in {"lostfly", "done"}
        /\ q \in peers[<<1>>] /\ failCounts[<<1>>][q] = 2

\* C13: no step adds a peer to a node's active set, and every active set is
\* part of the node's initial peers: a peer that has been evicted stays
\* out, whatever succeeds afterwards.
C13_EvictionPermanent ==
    /\ [](\A n \in Nodes : peers[n] \subseteq InitialPeers[n])
    /\ [][\A n \in Nodes : peers'[n] \subseteq peers[n]]_vars

\* An outcome recorded after a peer's eviction was a success: its count is
\* back at 0 and it is still out.
C13_Witness ==
    \E p \in InitialPeers[<<1>>] :
        /\ p \notin peers[<<1>>]
        /\ failCounts[<<1>>][p] = 0

\* --------------------------------------------------------- claims on reads
\* The entry it is invisible to a reader whose clock reads now.
Invisible(it, now) ==
    it.tombstone \/ (it.expiresAt # ZeroTime /\ it.expiresAt < now)

\* C14: in every state, swept or not, GET /kv/{key} on a node answers 404
\* if the node's Store has no entry for the key, or a tombstone, or an entry
\* whose expiresAt is set and before the node's clock; otherwise it answers
\* 200 with the stored value.
C14_ReadVisibility ==
    \A n \in Nodes, key \in {"k1"} :
        LET r == handleGetResp(data[n], key, clock[n])
        IN IF key \notin DOMAIN data[n] \/ Invisible(data[n][key], clock[n])
           THEN r.status = 404
           ELSE r.status = 200 /\ r.body = data[n][key].value

\* A GET was answered 404 for a key whose expired entry no janitor has
\* removed yet, at a node where another write had made a tombstone first.
C14_Witness ==
    /\ ret.op = "get" /\ ret.status = 404
    /\ ret.key \in DOMAIN data[ret.node]
    /\ ~data[ret.node][ret.key].tombstone
    /\ expired(data[ret.node][ret.key], clock[ret.node])
    /\ \E i \in DOMAIN reqs : reqs[i].op = "del" /\ ret.node \in calls[i].stored

C16_StaleNotReplicated ==
    \A i \in DOMAIN calls :
        (Written(i) /\ ~calls[i].applied) =>
            /\ calls[i].status = 409
            /\ \A q \in Nodes : calls[i].posted[q] = 0

\* C17: whenever a client write has been answered 502, on a timeout, a
\* failed delivery or the lack of peers, the entry its handler built and
\* Put is in the Store of the originating node, and the counts returned
\* beside the error are those of the acknowledgements received and of the
\* peers of the snapshot.
C17_NoRollback ==
    \A i \in DOMAIN calls :
        (calls[i].pc = "returned" /\ calls[i].status = 502) =>
            LET n == reqs[i].node
                key == reqs[i].key
            IN /\ calls[i].applied
               /\ key \in DOMAIN data[n] /\ data[n][key] = calls[i].item
               /\ calls[i].err # "nil"
               /\ calls[i].total = Cardinality(calls[i].snap)
               /\ calls[i].acked <=
                     Cardinality({p \in calls[i].snap :
                                    calls[i].sends[p] = 1 /\ p \in calls[i].got})

\* A PUT was answered 502 on its deadline with one of two acknowledgements.
C17_Witness ==
    \E i \in DOMAIN calls :
        /\ calls[i].pc = "returned" /\ calls[i].status = 502
        /\ reqs[i].op = "set"
        /\ calls[i].err = "timeout waiting for acks"
        /\ calls[i].acked = 1 /\ calls[i].total = 2
        /\ data[reqs[i].node][reqs[i].key] = calls[i].item

\* The peers of call i's snapshot whose Store holds, for the key of the
\* write, an entry with a (version, origin) pair not below the write's.
Holders(i) ==
    {p \in calls[i].snap :
        /\ reqs[i].key \in DOMAIN data[p]
        /\ \/ PairGreater(data[p][reqs[i].key], calls[i].item)
           \/ SamePair(data[p][reqs[i].key], calls[i].item)}

\* The peers of call i's snapshot at which a GET of the key is answered
\* with the written value.
Readers(i) ==
    {p \in calls[i].snap :
        handleGetResp(data[p], reqs[i].key, clock[p]) =
            [status |-> 200, body |-> reqs[i].value]}

\* C18: when a client write has returned success with acked = a, at least
\* a peers hold an entry for the key whose pair is not below the write's;
\* where nothing has superseded it (no other write, expiry or sweep), a GET
\* at a of the peers at least is answered with the value of a PUT.
C18_AckMeansApplied ==
    \A i \in DOMAIN calls :
        (Ran(i) /\ calls[i].pc = "returned" /\ calls[i].err = "nil") =>
            /\ Cardinality(Holders(i)) >= calls[i].acked
            /\ reqs[i].op = "set" => Cardinality(Readers(i)) >= calls[i].acked

\* A PUT with min = 1 has returned 201 with one acknowledgement while the
\* other peer has not handled the message yet.
C18_Witness ==
    \E i \in DOMAIN calls :
        /\ Ran(i) /\ calls[i].pc = "returned" /\ calls[i].status = 201
        /\ calls[i].acked = 1 /\ calls[i].total = 2
        /\ Cardinality(Holders(i)) = 1
        /\ Cardinality(Readers(i)) = 1

\* C19 as stated: at a node that has applied the tombstone of a delete, no
\* GET is ever answered with the entry of a PUT whose (version, origin)
\* pair is below the tombstone's, whatever syncs arrive and whenever the
\* janitors sweep afterwards.
C19_DeletePrevails ==
    \A i \in DOMAIN reqs : \A j \in DOMAIN reqs : \A n \in Nodes :
        (/\ reqs[i].op = "del" /\ n \in calls[i].stored
         /\ reqs[j].op = "set" /\ Written(j) /\ reqs[j].key = reqs[i].key
         /\ PairGreater(calls[i].item, calls[j].item))
        => ~(/\ handleGetResp(data[n], reqs[i].key, clock[n]).status = 200
             /\ data[n][reqs[i].key] = calls[j].item)

\* ------------------------------------------ claims on delivery goroutines
\* The peers whose delivery goroutine of call c has not reported yet.
Pending(c) == {p \in c.snap : c.dl[p] \in {"flying", "served"}}

\* C20: a Replicate call that found peers made one POST /sync to each peer
\* of its snapshot and to no other node; no attempt has recorded more than
\* one outcome or sent more than one result, and each has recorded exactly
\* as many outcomes as it has sent results; the results waiting in the
\* channel and the attempts still to report never exceed the channel's
\* capacity, so no send blocks; and every attempt reports in the end,
\* whether Replicate has returned or not.
C20_OneResultPerAttempt ==
    /\ [](\A i \in OneRequest :
            LET c == calls[i]
            IN /\ c.total = Cardinality(c.snap)
               /\ DOMAIN c.dl = c.snap
               /\ \A q \in Nodes :
                     /\ c.posted[q] = IF q \in c.snap THEN 1 ELSE 0
                     /\ c.bumps[q] = c.sends[q]
                     /\ c.sends[q] = IF q \in c.snap \ Pending(c) THEN 1 ELSE 0
               /\ Len(c.ch) + Cardinality(Pending(c)) <= ChanCap(c.total)
               /\ Len(c.ch) <= c.total)
    /\ \A i \in OneRequest, p \in Nodes :
          (p \in Pending(calls[i])) ~> (calls[i].sends[p] = 1)

\* Replicate returned without waiting, and both attempts, failing on the
\* canceled context, have since put their results into the channel, which
\* nobody reads any more.
C20_Witness ==
    \E i \in DOMAIN calls :
        /\ calls[i].pc = "returned" /\ calls[i].total = 2
        /\ Len(calls[i].ch) = 2
        /\ \A p \in calls[i].snap : calls[i].sends[p] = 1 /\ calls[i].bumps[p] = 1

\* --------------------------------------------------- claims on healthy peers
\* C21 as stated: a peer that answers every probe and every delivery stays
\* in the active set of each node that was configured with it.
C21_HealthyNeverEvicted ==
    \A n \in Nodes : \A p \in InitialPeers[n] :
        class[p] = "healthy" => p \in peers[n]

\* ------------------------------------------------ claims on a Store's history
\* The positions in seen[n] of the entries Put for key since key was last
\* absent from n's Store.
PutSince(n, key) == {j \in 1..Len(seen[n]) : pool[seen[n][j]].key = key}

\* The entry at position j is the greatest of them, and the first applied
\* among those with its pair.
IsWinner(n, key, j) ==
    \A m \in PutSince(n, key) \ {j} :
        IF m < j
        THEN PairGreater(pool[seen[n][j]].item, pool[seen[n][m]].item)
        ELSE ~PairGreater(pool[seen[n][m]].item, pool[seen[n][j]].item)

\* C22: in every state the entry a Store holds for a key is the greatest
\* under the LWW order of the entries Put for the key, by local writes and
\* by syncs, since the key was last absent, and the first applied among
\* those with equal pairs; and no step lowers the pair stored for a key
\* that stays in the Store.
C22_StoredIsMaximum ==
    /\ [](\A n \in SweepNodes : \A key \in Keys :
            IF key \in DOMAIN data[n]
            THEN \E j \in PutSince(n, key) :
                    /\ IsWinner(n, key, j)
                    /\ data[n][key] = pool[seen[n][j]].item
            ELSE PutSince(n, key) = {})
    /\ [][\A n \in Nodes : \A key \in DOMAIN data[n] \cap DOMAIN data'[n] :
            ~PairGreater(data[n][key], data'[n][key])]_vars

\* Two entries with the same pair and different contents were Put, in the
\* order 2, 1; the Put of the second was rejected.
C22_Witness ==
    \E n \in SweepNodes :
        /\ pool[1].key = pool[2].key
        /\ SamePair(pool[1].item, pool[2].item)
        /\ pool[1].item # pool[2].item
        /\ seen[n] = <<2, 1>>
        /\ data[n][pool[1].key] = pool[2].item
        /\ ret.op = "put" /\ ret.i = 1 /\ ~ret.applied

\* ------------------------------------------------- claims on the quorum
\* min brought into the range 0..total.
Clamped(min, total) ==
    IF min < 0 THEN 0 ELSE IF min > total THEN total ELSE min

\* C23: a Replicate call that found peers has as total the size of the
\* snapshot of the active set it took when called, as target total if full
\* was asked for and otherwise min clamped to 0..total, and counts with
\* 0 <= acked <= target <= total; with target 0 it has returned acked = 0
\* and a nil error in the step of the call, having received no result.  The
\* target is computed so for every min, negative ones included.
C23_TargetAndCounts ==
    /\ \A m \in (0 - 2)..(MaxMin + 1), t \in 0..3 :
          /\ Target(m, TRUE, t) = t
          /\ Target(m, FALSE, t) = Clamped(m, t)
    /\ \A i \in DOMAIN calls :
          LET c == calls[i]
          IN (Ran(i) /\ c.snap # {}) =>
                /\ c.snap = peers[reqs[i].node]
                /\ c.total = Cardinality(c.snap)
                /\ c.target = IF reqs[i].full THEN c.total
                                            ELSE Clamped(reqs[i].min, c.total)
                /\ 0 <= c.acked /\ c.acked <= c.target /\ c.target <= c.total
                /\ c.target = 0 =>
                      /\ c.pc = "returned" /\ c.acked = 0 /\ c.err = "nil"
                      /\ c.ctx = "canceled"
                      /\ Len(c.ch) = Cardinality(c.snap \ Pending(c))

\* A write with min = 0 has returned 201 with acked = 0 of total = 2 while
\* both deliveries are on their way.
C23_Witness ==
    \E i \in DOMAIN calls :
        /\ calls[i].pc = "returned" /\ calls[i].status = 201
        /\ reqs[i].min = 0 /\ ~reqs[i].full
        /\ calls[i].total = 2 /\ calls[i].target = 0 /\ calls[i].acked = 0
        /\ \A p \in calls[i].snap : calls[i].dl[p] = "flying"

\* ------------------------------------------------------ claims on Store.Get
\* C24: Get of a key that is in the Store returns its entry as stored and
\* true, tombstone or expired or not, and Get of another key returns false;
\* a step that is a Get changes no Store; and a key leaves a Store only in
\* a step that is a HardDeleteExpired on that Store.
C24_GetPure ==
    /\ [](\A n \in SweepNodes, key \in Keys :
            LET g == Get(data[n], key)
            IN IF key \in DOMAIN data[n]
               THEN g.ok /\ g.it = data[n][key]
               ELSE ~g.ok)
    /\ [][/\ ret'.op = "Get" =>
               /\ data' = data
               /\ ret'.ok <=> ret'.key \in DOMAIN data[ret'.node]
               /\ ret'.ok => ret'.it = data[ret'.node][ret'.key]
          /\ \A n \in Nodes : \A key \in DOMAIN data[n] :
               key \notin DOMAIN data'[n] => ret'.op = "sweep" /\ ret'.node = n]_vars

\* A Get has returned a tombstone, with true, and the tombstone is still
\* in the Store.
C24_Witness ==
    /\ ret.op = "Get" /\ ret.ok /\ ret.it.tombstone
    /\ ret.key \in DOMAIN data[ret.node]
    /\ data[ret.node][ret.key] = ret.it

====
